---- MODULE Spec2Model ----
(***************************************************************************)
(* A model of src/server.py: one gossip node (port MY_PORT) of a peer      *)
(* network.  The node's module-level state (AWAKE, RECEIVED_MESSAGES,      *)
(* State) is shared by the Flask request threads that run receive() /      *)
(* respond() and by the three Interval timer threads (send_pings_to_-      *)
(* everyone, evict_peers, generate_next_mersenne_prime).  No lock is taken *)
(* anywhere in the source, so every statement that reads or writes the     *)
(* shared state is a step of its own and the steps of different threads    *)
(* interleave freely.                                                      *)
(*                                                                         *)
(* Spec, SleepSpec, RaceSpec, ValueSpec, EvictSpec: one node, statement by  *)
(*   statement, under arbitrary inbound envelopes (the other nodes are the *)
(*   environment); they differ in the threads that run (thr's domain).     *)
(*   Everything a thread sends is recorded in its `out`.                   *)
(* NetSpec, NetFairSpec: a network of nodes that all run the program, each *)
(*   call of respond and each timer round taken as one step.               *)
(***************************************************************************)
EXTENDS Integers, Sequences, FiniteSets, TLC

(* ------------------------------------------------------------------ *)
(* Program constants                                                   *)
(* ------------------------------------------------------------------ *)
MY_PORT == 1
OtherPorts == {2, 3}
Ports == {MY_PORT} \cup OtherPorts
\* sys.argv[2], the peer the node is started with
BOOTSTRAP == {2}

INFECTION_FACTOR == 2
PING == "PING"
PONG == "PONG"
PRIME == "PRIME"
MESSAGE_TYPES == {PING, PONG, PRIME}
\* "ttl": 2 of an originated PRIME
GOSSIP_TTL == 2
\* current_time - STATE["peers"][p] > 10
EVICT_AFTER == 10
\* "data": None
None == -1

(* ------------------------------------------------------------------ *)
(* Bounds of the model                                                 *)
(* ------------------------------------------------------------------ *)
\* request threads of the Flask server that can be inside receive() at once
MaxHandlers == 2
\* msg_id values carried by inbound envelopes: 1..MaxEnvId
MaxEnvId == 1
\* how many Mersenne primes the values range over
MaxPrimes == 2
\* the clock runs 0, TickStep, 2*TickStep, ... up to MaxTime
TickStep == 5
MaxTime == 15
\* STATE["msg_id"] at which the timers stop starting new rounds
MaxMsgId == 3
\* inbound envelopes accepted over a run of Spec
MaxDeliveries == 3
\* inbound envelopes accepted over a run of the specifications in which
\* threads run side by side
MaxRequests == 2
\* IdSpec: the timer rounds and resets
MaxFirings == 2
\* QuietSpec: the timer rounds
MaxQuietFirings == 1
\* NetSpec: the timer rounds in the whole network
MaxRounds == 2

MERSENNE == <<3, 7, 31, 127, 8191, 131071, 524287>>
Values == {2} \cup {MERSENNE[i] : i \in 1..MaxPrimes}

\* primes.find_next_mersenne_prime: the smallest Mersenne prime above v
find_next_mersenne_prime(v) ==
  MERSENNE[CHOOSE i \in 1..Len(MERSENNE) :
             /\ MERSENNE[i] > v
             /\ \A j \in 1..(i-1) : MERSENNE[j] <= v]

Handlers == 1..MaxHandlers
\* the three Interval threads of __main__ and the request thread of /reset
PingT == -1
EvictT == -2
PrimeT == -3
ResetT == -4
Timers == {PingT, EvictT, PrimeT}
Threads == Handlers \cup Timers \cup {ResetT}

VARIABLES
  AWAKE,              \* the module global AWAKE
  RECEIVED_MESSAGES,  \* set of <<msg_id, msg_originator>>
  State,              \* [peers, biggest_prime, biggest_prime_sender, msg_id]
  now,                \* time.time()
  thr,                \* per thread: program counter and locals
  delivered,          \* inbound envelopes accepted so far
  nodes,              \* NetSpec: AWAKE, RECEIVED_MESSAGES and STATE per node
  net,                \* NetSpec: the envelopes posted and not yet handled
  fired               \* NetSpec: timer rounds run so far

node == <<AWAKE, RECEIVED_MESSAGES, State, now, thr, delivered>>
network == <<nodes, net, fired>>
vars == <<node, network>>

(* ------------------------------------------------------------------ *)
(* Envelopes and thread records                                        *)
(* ------------------------------------------------------------------ *)
NoEnv == [msg_type |-> "none", msg_id |-> 0, msg_forwarder |-> 0,
          msg_originator |-> 0, ttl |-> 0, data |-> None]
NoCall == [peer |-> 0, msg_type |-> "none", ttl |-> 0, data |-> None,
           msg_originator |-> 0, forwarded |-> FALSE]

\* what the environment POSTs to /receive: envelopes of every message type
\* with forwarder in F, originator in O, ttl in T and, for a PRIME, data in
\* D; a PING or PONG carries no data, and ttl 0 or the largest ttl
EnvelopeSet(F, O, T, D) ==
  { m \in [msg_type : MESSAGE_TYPES, msg_id : 1..MaxEnvId,
           msg_forwarder : F, msg_originator : O,
           ttl : T, data : D \cup {None}] :
      /\ m.msg_type = PRIME => m.data # None
      /\ m.msg_type # PRIME => m.data = None /\ m.ttl \in {0, GOSSIP_TTL} }
\* the other nodes that are not the bootstrap peer
Strangers == OtherPorts \ BOOTSTRAP
\* any forwarder, any originator (the node itself too), any ttl up to that
\* of an originated PRIME, any value above the initial one
Envelopes == EnvelopeSet(OtherPorts, Ports, 0..GOSSIP_TTL, Values \ {2})
\* the same, forwarded by a node that is not the bootstrap peer
RaceEnvelopes == EnvelopeSet(Strangers, Ports, 0..GOSSIP_TTL, Values \ {2})
\* from the bootstrap peer, forwarded by another node, at most one hop left
ValueEnvelopes == EnvelopeSet(Strangers, BOOTSTRAP, 0..1, Values \ {2})
\* from a node that is not the bootstrap peer, forwarded by any node, at
\* most one hop left, one value
EvictEnvelopes == EnvelopeSet(OtherPorts, Strangers, 0..1, {MERSENNE[1]})

\* pc: where the thread stands; env: the envelope receive() parsed;
\* vis, n, frozen, fkeys: the dict iterator of a for loop over
\* STATE["peers"].keys() (keys already yielded, the dict's size when the
\* iterator was made, and, once reset() has rebound STATE, the keys of the
\* dict the iterator still walks); call, ret: the pending send_message_to
\* call and where it returns to; mid, lost: the value STATE["msg_id"] += 1
\* has loaded, and whether the dict it loaded it from has been replaced;
\* out: what the thread has posted; cur, rm: evict_peers' current_time and
\* peers_to_remove (rm also holds gossip_prime_number's sample not yet sent
\* to); np: new_prime; exc: an exception ended the call;
\* dup: respond returned at line 57.
Idle == [pc |-> "idle", env |-> NoEnv, vis |-> {}, n |-> 0, frozen |-> FALSE,
         fkeys |-> {}, call |-> NoCall, ret |-> "idle", mid |-> 0,
         lost |-> FALSE, out |-> <<>>, cur |-> 0, rm |-> {}, np |-> 0,
         exc |-> FALSE, dup |-> FALSE]

Peers == DOMAIN State.peers

\* STATE["peers"][p] = t
PeersSet(p, t) == [q \in Peers \cup {p} |-> IF q = p THEN t ELSE State.peers[q]]
\* STATE["peers"].pop(p)
PeersPop(p) == [q \in Peers \ {p} |-> State.peers[q]]

InitialSTATE(id, t) ==
  [peers |-> [p \in BOOTSTRAP |-> t], biggest_prime |-> 2,
   biggest_prime_sender |-> MY_PORT, msg_id |-> id]

\* the module as loaded (lines 32-53, 269), with the threads T
InitWith(T) ==
  /\ AWAKE = TRUE
  /\ RECEIVED_MESSAGES = {}
  /\ State = InitialSTATE(0, 0)
  /\ now = 0
  /\ thr = [t \in T |-> Idle]
  /\ delivered = 0
  /\ nodes = <<>>
  /\ net = {}
  /\ fired = 0

Init == InitWith({1})

Set(t, r) == thr' = [thr EXCEPT ![t] = r]
\* the request threads that run
Running == DOMAIN thr \cap Handlers

(* ------------------------------------------------------------------ *)
(* send_message_to (lines 125-161)                                     *)
(* ------------------------------------------------------------------ *)
\* lines 141-147: the envelope that goes on the wire
EnvelopeOf(self, call, id) ==
  [msg_type |-> call.msg_type, ttl |-> call.ttl, data |-> call.data,
   msg_forwarder |-> self, msg_id |-> id,
   msg_originator |-> IF call.forwarded THEN call.msg_originator ELSE self]
\* the same at the node of the one-node specifications
Envelope(call, id) == EnvelopeOf(MY_PORT, call, id)

\* the end of a call: a request thread's exception is caught by receive()
\* (line 120); a timer's ends Interval.run, and the thread with it
Raise(t) ==
  Set(t, [thr[t] EXCEPT !.pc = IF t \in Handlers THEN "done" ELSE "dead",
                        !.exc = TRUE, !.call = NoCall, !.vis = {}, !.n = 0,
                        !.frozen = FALSE, !.fkeys = {}, !.rm = {}])

\* lines 132-155 without only_if_awake
SendUngated(t) ==
  /\ thr[t].pc = "send"
  /\ Set(t, [thr[t] EXCEPT
         !.pc = "inc",
         !.out = Append(@, [to |-> thr[t].call.peer,
                            msg |-> Envelope(thr[t].call, State.msg_id)]),
         !.call = NoCall])
  /\ UNCHANGED <<AWAKE, RECEIVED_MESSAGES, State, now, delivered>>

\* only_if_awake (line 99), then lines 132-155: the message is posted
Send(t) ==
  /\ thr[t].pc = "send"
  /\ IF AWAKE
       THEN Set(t, [thr[t] EXCEPT
              !.pc = "inc",
              !.out = Append(@, [to |-> thr[t].call.peer,
                                 msg |-> Envelope(thr[t].call, State.msg_id)]),
              !.call = NoCall])
       ELSE Set(t, [thr[t] EXCEPT !.pc = thr[t].ret, !.call = NoCall])
  /\ UNCHANGED <<AWAKE, RECEIVED_MESSAGES, State, now, delivered>>

\* line 161, STATE["msg_id"] += 1: the load ...
IncLoad(t) ==
  /\ thr[t].pc = "inc"
  /\ Set(t, [thr[t] EXCEPT !.pc = "wr", !.mid = State.msg_id, !.lost = FALSE])
  /\ UNCHANGED <<AWAKE, RECEIVED_MESSAGES, State, now, delivered>>

\* ... and the store, into the dict the load read
IncStore(t) ==
  /\ thr[t].pc = "wr"
  /\ State' = IF thr[t].lost THEN State
                ELSE [State EXCEPT !.msg_id = thr[t].mid + 1]
  /\ Set(t, [thr[t] EXCEPT !.pc = thr[t].ret, !.mid = 0, !.lost = FALSE])
  /\ UNCHANGED <<AWAKE, RECEIVED_MESSAGES, now, delivered>>

(* ------------------------------------------------------------------ *)
(* for peer in STATE["peers"].keys()                                   *)
(* ------------------------------------------------------------------ *)
\* the keys the iterator walks
IterKeys(t) == IF thr[t].frozen THEN thr[t].fkeys ELSE Peers
\* "dictionary changed size during iteration"
IterBroken(t) == ~thr[t].frozen /\ Cardinality(Peers) # thr[t].n
IterRest(t) == IterKeys(t) \ thr[t].vis

(* ------------------------------------------------------------------ *)
(* receive (lines 105-123) and respond (lines 55-91)                   *)
(* ------------------------------------------------------------------ *)
\* a request thread enters receive(); route() registered the undecorated
\* function, so only_if_awake (line 105) is not on this path
Receive(h, E, K) ==
  /\ thr[h].pc = "idle"
  /\ \A g \in Running : g < h => thr[g].pc # "idle"
  /\ delivered < K
  /\ delivered' = delivered + 1
  /\ \E m \in E : Set(h, [Idle EXCEPT !.pc = "check", !.env = m])
  /\ UNCHANGED <<AWAKE, RECEIVED_MESSAGES, State, now>>

Identity(m) == <<m.msg_id, m.msg_originator>>

\* line 56 without the membership test
CheckNoDedup(h) ==
  /\ thr[h].pc = "check"
  /\ Set(h, [thr[h] EXCEPT !.pc = "add"])
  /\ UNCHANGED <<AWAKE, RECEIVED_MESSAGES, State, now, delivered>>

\* line 56
Check(h) ==
  /\ thr[h].pc = "check"
  /\ IF Identity(thr[h].env) \in RECEIVED_MESSAGES
       THEN Set(h, [thr[h] EXCEPT !.pc = "done", !.dup = TRUE])
       ELSE Set(h, [thr[h] EXCEPT !.pc = "add"])
  /\ UNCHANGED <<AWAKE, RECEIVED_MESSAGES, State, now, delivered>>

\* lines 59-61 without the return of line 61
AddNoSelfCheck(h) ==
  /\ thr[h].pc = "add"
  /\ RECEIVED_MESSAGES' = RECEIVED_MESSAGES \cup {Identity(thr[h].env)}
  /\ Set(h, [thr[h] EXCEPT !.pc = "touch"])
  /\ UNCHANGED <<AWAKE, State, now, delivered>>

\* lines 59-61
Add(h) ==
  /\ thr[h].pc = "add"
  /\ RECEIVED_MESSAGES' = RECEIVED_MESSAGES \cup {Identity(thr[h].env)}
  /\ Set(h, [thr[h] EXCEPT
         !.pc = IF thr[h].env.msg_originator = MY_PORT
                THEN "done" ELSE "touch"])
  /\ UNCHANGED <<AWAKE, State, now, delivered>>

\* the PONG addressed to the forwarder of the PING
PongCallToForwarder(m) ==
  [peer |-> m.msg_forwarder, msg_type |-> PONG, ttl |-> 0, data |-> None,
   msg_originator |-> 0, forwarded |-> FALSE]

\* lines 66-71
PongCall(m) ==
  [peer |-> m.msg_originator, msg_type |-> PONG, ttl |-> 0, data |-> None,
   msg_originator |-> 0, forwarded |-> FALSE]

\* line 63 (update_last_heard_from), then the dispatch of lines 65-74
Touch(h) ==
  LET m == thr[h].env IN
  /\ thr[h].pc = "touch"
  /\ State' = [State EXCEPT !.peers = PeersSet(m.msg_forwarder, now)]
  /\ Set(h, CASE m.msg_type = PING ->
                  [thr[h] EXCEPT !.pc = "send", !.ret = "done",
                                 !.call = PongCall(m)]
             [] m.msg_type = PRIME -> [thr[h] EXCEPT !.pc = "cmp"]
             [] OTHER -> [thr[h] EXCEPT !.pc = "done"])
  /\ UNCHANGED <<AWAKE, RECEIVED_MESSAGES, now, delivered>>

\* line 75 with respond returning when the value is not adopted
CompareGated(h) ==
  LET m == thr[h].env IN
  /\ thr[h].pc = "cmp"
  /\ IF m.data = None THEN Raise(h)
     ELSE Set(h, [thr[h] EXCEPT
            !.pc = IF m.data > State.biggest_prime THEN "setp" ELSE "done"])
  /\ UNCHANGED <<AWAKE, RECEIVED_MESSAGES, State, now, delivered>>

\* line 75: data > STATE["biggest_prime"]; None > int raises TypeError
Compare(h) ==
  LET m == thr[h].env IN
  /\ thr[h].pc = "cmp"
  /\ IF m.data = None THEN Raise(h)
     ELSE Set(h, [thr[h] EXCEPT
            !.pc = IF m.data > State.biggest_prime THEN "setp" ELSE "orig"])
  /\ UNCHANGED <<AWAKE, RECEIVED_MESSAGES, State, now, delivered>>

\* line 76
SetPrime(h) ==
  /\ thr[h].pc = "setp"
  /\ State' = [State EXCEPT !.biggest_prime = thr[h].env.data]
  /\ Set(h, [thr[h] EXCEPT !.pc = "sets"])
  /\ UNCHANGED <<AWAKE, RECEIVED_MESSAGES, now, delivered>>

\* line 77 with the forwarder as sender
SetSenderForwarder(h) ==
  /\ thr[h].pc = "sets"
  /\ State' = [State EXCEPT !.biggest_prime_sender = thr[h].env.msg_forwarder]
  /\ Set(h, [thr[h] EXCEPT !.pc = "orig"])
  /\ UNCHANGED <<AWAKE, RECEIVED_MESSAGES, now, delivered>>

\* line 77
SetSender(h) ==
  /\ thr[h].pc = "sets"
  /\ State' = [State EXCEPT !.biggest_prime_sender = thr[h].env.msg_originator]
  /\ Set(h, [thr[h] EXCEPT !.pc = "orig"])
  /\ UNCHANGED <<AWAKE, RECEIVED_MESSAGES, now, delivered>>

\* lines 79-81
TouchOriginator(h) ==
  LET m == thr[h].env IN
  /\ thr[h].pc = "orig"
  /\ State' = [State EXCEPT !.peers = PeersSet(m.msg_originator, now)]
  /\ Set(h, [thr[h] EXCEPT !.pc = IF m.ttl = 0 THEN "done" ELSE "keys"])
  /\ UNCHANGED <<AWAKE, RECEIVED_MESSAGES, now, delivered>>

\* line 90: the iterator over STATE["peers"].keys() is made
RelayKeys(h) ==
  /\ thr[h].pc = "keys"
  /\ Set(h, [thr[h] EXCEPT !.pc = "relay", !.vis = {},
                            !.n = Cardinality(Peers)])
  /\ UNCHANGED <<AWAKE, RECEIVED_MESSAGES, State, now, delivered>>

\* lines 83-88
RelayCallSameTtl(m, p) ==
  [peer |-> p, msg_type |-> PRIME, ttl |-> m.ttl, data |-> m.data,
   msg_originator |-> m.msg_originator, forwarded |-> TRUE]

\* lines 83-91: the call of line 91 for peer p
RelayCall(m, p) ==
  [peer |-> p, msg_type |-> PRIME, ttl |-> m.ttl - 1, data |-> m.data,
   msg_originator |-> m.msg_originator, forwarded |-> TRUE]

\* lines 90-91: the iterator yields the next peer, or ends the loop
Relay(h) ==
  /\ thr[h].pc = "relay"
  /\ IF IterBroken(h) THEN Raise(h)
     ELSE IF IterRest(h) = {}
       THEN Set(h, [thr[h] EXCEPT !.pc = "done", !.vis = {}, !.n = 0,
                                  !.frozen = FALSE, !.fkeys = {}])
       ELSE \E p \in IterRest(h) :
              Set(h, [thr[h] EXCEPT !.pc = "send", !.ret = "relay",
                                    !.vis = @ \cup {p},
                                    !.call = RelayCall(thr[h].env, p)])
  /\ UNCHANGED <<AWAKE, RECEIVED_MESSAGES, State, now, delivered>>

\* receive() returns "OK" (line 123)
Return(h) ==
  /\ thr[h].pc = "done"
  /\ Set(h, Idle)
  /\ UNCHANGED <<AWAKE, RECEIVED_MESSAGES, State, now, delivered>>

(* ------------------------------------------------------------------ *)
(* The Interval threads (lines 262-278)                                *)
(* ------------------------------------------------------------------ *)
\* time passes
Tick ==
  /\ now + TickStep <= MaxTime
  /\ now' = now + TickStep
  /\ UNCHANGED <<AWAKE, RECEIVED_MESSAGES, State, thr, delivered>>

\* the timer's function has returned; Interval.run waits again (line 264)
TimerReturn(t) ==
  /\ t \in Timers
  /\ thr[t].pc = "done"
  /\ Set(t, Idle)
  /\ UNCHANGED <<AWAKE, RECEIVED_MESSAGES, State, now, delivered>>

PingCall(p) ==
  [peer |-> p, msg_type |-> PING, ttl |-> 0, data |-> None,
   msg_originator |-> 0, forwarded |-> FALSE]

\* send_pings_to_everyone: only_if_awake, and the iterator of line 171
PingStart ==
  /\ thr[PingT].pc = "idle"
  /\ State.msg_id < MaxMsgId
  /\ IF AWAKE
       THEN Set(PingT, [Idle EXCEPT !.pc = "ploop", !.n = Cardinality(Peers)])
       ELSE Set(PingT, [Idle EXCEPT !.pc = "done"])
  /\ UNCHANGED <<AWAKE, RECEIVED_MESSAGES, State, now, delivered>>

\* lines 171-172
PingLoop ==
  /\ thr[PingT].pc = "ploop"
  /\ IF IterBroken(PingT) THEN Raise(PingT)
     ELSE IF IterRest(PingT) = {}
       THEN Set(PingT, [thr[PingT] EXCEPT !.pc = "done", !.vis = {}, !.n = 0,
                                          !.frozen = FALSE, !.fkeys = {}])
       ELSE \E p \in IterRest(PingT) :
              Set(PingT, [thr[PingT] EXCEPT !.pc = "send", !.ret = "ploop",
                                            !.vis = @ \cup {p},
                                            !.call = PingCall(p)])
  /\ UNCHANGED <<AWAKE, RECEIVED_MESSAGES, State, now, delivered>>

\* evict_peers: only_if_awake, line 203, and the iterator of line 204
EvictStart ==
  /\ thr[EvictT].pc = "idle"
  /\ IF AWAKE
       THEN Set(EvictT, [Idle EXCEPT !.pc = "escan", !.cur = now,
                                     !.n = Cardinality(Peers)])
       ELSE Set(EvictT, [Idle EXCEPT !.pc = "done"])
  /\ UNCHANGED <<AWAKE, RECEIVED_MESSAGES, State, now, delivered>>

\* current_time - STATE["peers"][p] > 10
Stale(cur, heard) == cur - heard > EVICT_AFTER

\* line 204: the comprehension takes the next key and tests it
EvictScan ==
  LET t == thr[EvictT] IN
  /\ t.pc = "escan"
  /\ IF IterBroken(EvictT) THEN Raise(EvictT)
     ELSE IF IterRest(EvictT) = {}
       THEN Set(EvictT, [t EXCEPT !.pc = "epop", !.vis = {}, !.n = 0,
                                  !.frozen = FALSE, !.fkeys = {}])
       ELSE \E p \in IterRest(EvictT) :
              IF p \notin Peers THEN Raise(EvictT)
              ELSE Set(EvictT, [t EXCEPT
                     !.vis = @ \cup {p},
                     !.rm = IF Stale(t.cur, State.peers[p])
                            THEN @ \cup {p} ELSE @])
  /\ UNCHANGED <<AWAKE, RECEIVED_MESSAGES, State, now, delivered>>

\* lines 206-207: the next peer of peers_to_remove is popped
EvictPop ==
  LET t == thr[EvictT] IN
  /\ t.pc = "epop"
  /\ IF t.rm = {}
       THEN /\ Set(EvictT, [t EXCEPT !.pc = "done"])
            /\ UNCHANGED State
       ELSE \E p \in t.rm :
              IF p \in Peers
              THEN /\ State' = [State EXCEPT !.peers = PeersPop(p)]
                   /\ Set(EvictT, [t EXCEPT !.rm = @ \ {p}])
              ELSE /\ Raise(EvictT)
                   /\ UNCHANGED State
  /\ UNCHANGED <<AWAKE, RECEIVED_MESSAGES, now, delivered>>

\* generate_next_mersenne_prime: only_if_awake and line 214
PrimeStart ==
  /\ thr[PrimeT].pc = "idle"
  /\ State.msg_id < MaxMsgId
  /\ find_next_mersenne_prime(State.biggest_prime) \in Values
  /\ IF AWAKE
       THEN Set(PrimeT, [Idle EXCEPT
              !.pc = "pset",
              !.np = find_next_mersenne_prime(State.biggest_prime)])
       ELSE Set(PrimeT, [Idle EXCEPT !.pc = "done"])
  /\ UNCHANGED <<AWAKE, RECEIVED_MESSAGES, State, now, delivered>>

\* line 215
PrimeSet ==
  /\ thr[PrimeT].pc = "pset"
  /\ State' = [State EXCEPT !.biggest_prime = thr[PrimeT].np]
  /\ Set(PrimeT, [thr[PrimeT] EXCEPT !.pc = "psender"])
  /\ UNCHANGED <<AWAKE, RECEIVED_MESSAGES, now, delivered>>

\* line 216
PrimeSender ==
  /\ thr[PrimeT].pc = "psender"
  /\ State' = [State EXCEPT !.biggest_prime_sender = MY_PORT]
  /\ Set(PrimeT, [thr[PrimeT] EXCEPT !.pc = "gossip"])
  /\ UNCHANGED <<AWAKE, RECEIVED_MESSAGES, now, delivered>>

Min(a, b) == IF a < b THEN a ELSE b

\* gossip_prime_number: only_if_awake and lines 182-183, the sample of
\* min(INFECTION_FACTOR, len(peers)) peers
Gossip ==
  /\ thr[PrimeT].pc = "gossip"
  /\ IF AWAKE
       THEN \E S \in SUBSET Peers :
              /\ Cardinality(S) = Min(INFECTION_FACTOR, Cardinality(Peers))
              /\ Set(PrimeT, [thr[PrimeT] EXCEPT !.pc = "gloop", !.rm = S])
       ELSE Set(PrimeT, [thr[PrimeT] EXCEPT !.pc = "done"])
  /\ UNCHANGED <<AWAKE, RECEIVED_MESSAGES, State, now, delivered>>

\* lines 176-180
GossipCall(p, prime) ==
  [peer |-> p, msg_type |-> PRIME, ttl |-> GOSSIP_TTL, data |-> prime,
   msg_originator |-> 0, forwarded |-> FALSE]

\* lines 183-184
GossipLoop ==
  LET t == thr[PrimeT] IN
  /\ t.pc = "gloop"
  /\ IF t.rm = {}
       THEN Set(PrimeT, [t EXCEPT !.pc = "done"])
       ELSE \E p \in t.rm :
              Set(PrimeT, [t EXCEPT !.pc = "send", !.ret = "gloop",
                                    !.rm = @ \ {p},
                                    !.call = GossipCall(p, t.np)])
  /\ UNCHANGED <<AWAKE, RECEIVED_MESSAGES, State, now, delivered>>

(* ------------------------------------------------------------------ *)
(* /sleep and /wake_up (lines 233-243); a call that changes nothing is   *)
(* a stuttering step                                                    *)
(* ------------------------------------------------------------------ *)
sleep ==
  /\ AWAKE
  /\ AWAKE' = FALSE
  /\ UNCHANGED <<RECEIVED_MESSAGES, State, now, thr, delivered>>

wake_up ==
  /\ ~AWAKE
  /\ AWAKE' = TRUE
  /\ UNCHANGED <<RECEIVED_MESSAGES, State, now, thr, delivered>>

(* ------------------------------------------------------------------ *)
(* /reset (lines 245-260), in the request thread ResetT                *)
(* ------------------------------------------------------------------ *)
\* thread t is inside a for loop over STATE["peers"].keys()
Iterating(t) ==
  \/ thr[t].pc \in {"relay", "ploop", "escan"}
  \/ thr[t].pc \in {"send", "inc", "wr"} /\ thr[t].ret \in {"relay", "ploop"}

\* line 248
ResetAwake ==
  /\ thr[ResetT].pc = "idle"
  /\ State.msg_id < MaxMsgId
  /\ AWAKE' = TRUE
  /\ Set(ResetT, [Idle EXCEPT !.pc = "rseen"])
  /\ UNCHANGED <<RECEIVED_MESSAGES, State, now, delivered>>

\* line 250
ResetSeen ==
  /\ thr[ResetT].pc = "rseen"
  /\ RECEIVED_MESSAGES' = {}
  /\ Set(ResetT, [thr[ResetT] EXCEPT !.pc = "rload"])
  /\ UNCHANGED <<AWAKE, State, now, delivered>>

\* line 251
ResetLoad ==
  /\ thr[ResetT].pc = "rload"
  /\ Set(ResetT, [thr[ResetT] EXCEPT !.pc = "rstate", !.mid = State.msg_id])
  /\ UNCHANGED <<AWAKE, RECEIVED_MESSAGES, State, now, delivered>>

\* lines 252-259 with msg_id set back to 0
ResetStateZero ==
  /\ thr[ResetT].pc = "rstate"
  /\ State' = [peers |-> [p \in {} |-> 0], biggest_prime |-> 2,
               biggest_prime_sender |-> MY_PORT, msg_id |-> 0]
  /\ thr' = [t \in DOMAIN thr |->
       IF t = ResetT THEN [thr[t] EXCEPT !.pc = "rpeer"]
       ELSE [thr[t] EXCEPT
               !.fkeys = IF Iterating(t) /\ ~thr[t].frozen THEN Peers ELSE @,
               !.frozen = @ \/ Iterating(t),
               !.lost = @ \/ thr[t].pc = "wr"]]
  /\ UNCHANGED <<AWAKE, RECEIVED_MESSAGES, now, delivered>>

\* lines 252-259: STATE is bound to a new dict; a loop that walks the old
\* peers goes on walking them, and a += 1 that has loaded from the old dict
\* stores into it
ResetState ==
  /\ thr[ResetT].pc = "rstate"
  /\ State' = [peers |-> [p \in {} |-> 0], biggest_prime |-> 2,
               biggest_prime_sender |-> MY_PORT,
               msg_id |-> thr[ResetT].mid + 1]
  /\ thr' = [t \in DOMAIN thr |->
       IF t = ResetT THEN [thr[t] EXCEPT !.pc = "rpeer"]
       ELSE [thr[t] EXCEPT
               !.fkeys = IF Iterating(t) /\ ~thr[t].frozen THEN Peers ELSE @,
               !.frozen = @ \/ Iterating(t),
               !.lost = @ \/ thr[t].pc = "wr"]]
  /\ UNCHANGED <<AWAKE, RECEIVED_MESSAGES, now, delivered>>

\* line 260
ResetPeer ==
  /\ thr[ResetT].pc = "rpeer"
  /\ State' = [State EXCEPT !.peers =
                 [p \in Peers \cup BOOTSTRAP |->
                    IF p \in BOOTSTRAP THEN now ELSE State.peers[p]]]
  /\ Set(ResetT, [thr[ResetT] EXCEPT !.pc = "done"])
  /\ UNCHANGED <<AWAKE, RECEIVED_MESSAGES, now, delivered>>

\* reset() returns "OK"
ResetReturn ==
  /\ thr[ResetT].pc = "done"
  /\ Set(ResetT, Idle)
  /\ UNCHANGED <<AWAKE, RECEIVED_MESSAGES, State, now, delivered>>

reset ==
  \/ ResetAwake
  \/ ResetSeen
  \/ ResetLoad
  \/ ResetState
  \/ ResetPeer
  \/ ResetReturn

\* a step of a request thread inside receive()
\* (E: the envelopes that come in, K: how many over the run)
Request(E, K) ==
  \/ \E h \in Running : Receive(h, E, K)
  \/ \E h \in Running : Check(h)
  \/ \E h \in Running : Add(h)
  \/ \E h \in Running : Touch(h)
  \/ \E h \in Running : Compare(h)
  \/ \E h \in Running : SetPrime(h)
  \/ \E h \in Running : SetSender(h)
  \/ \E h \in Running : TouchOriginator(h)
  \/ \E h \in Running : RelayKeys(h)
  \/ \E h \in Running : Relay(h)
  \/ \E h \in Running : Return(h)

\* a step of any thread inside send_message_to
Sending ==
  \/ \E t \in DOMAIN thr : Send(t)
  \/ \E t \in DOMAIN thr : IncLoad(t)
  \/ \E t \in DOMAIN thr : IncStore(t)

Next ==
  /\ UNCHANGED network
  /\ \/ Request(Envelopes, MaxDeliveries)
     \/ Sending
     \/ sleep
     \/ wake_up

\* one request at a time
Spec == Init /\ [][Next]_vars

\* the node put to sleep (POST /sleep, line 236) before any request: one
\* request at a time, until and after /wake_up
SleepInit ==
  /\ AWAKE = FALSE
  /\ RECEIVED_MESSAGES = {}
  /\ State = InitialSTATE(0, 0)
  /\ now = 0
  /\ thr = [t \in {1} |-> Idle]
  /\ delivered = 0
  /\ nodes = <<>>
  /\ net = {}
  /\ fired = 0
SleepNext ==
  /\ UNCHANGED network
  /\ \/ Request(Envelopes, MaxRequests)
     \/ Sending
     \/ wake_up
SleepSpec == SleepInit /\ [][SleepNext]_vars

\* one request thread and the value-advancement timer
ValueInit == InitWith({1, PrimeT})
ValueNext ==
  /\ UNCHANGED network
  /\ \/ Request(ValueEnvelopes, MaxRequests)
     \/ Sending
     \/ PrimeStart
     \/ PrimeSet
     \/ PrimeSender
     \/ Gossip
     \/ GossipLoop
     \/ TimerReturn(PrimeT)
ValueSpec == ValueInit /\ [][ValueNext]_vars

\* one request thread and the eviction timer, as time passes
EvictInit == InitWith({1, EvictT})
EvictNext ==
  /\ UNCHANGED network
  /\ \/ Request(EvictEnvelopes, MaxRequests)
     \/ Sending
     \/ EvictStart
     \/ EvictScan
     \/ EvictPop
     \/ TimerReturn(EvictT)
     \/ Tick
EvictSpec == EvictInit /\ [][EvictNext]_vars

\* MaxHandlers requests at a time
RaceInit == InitWith(Handlers)
RaceNext ==
  /\ UNCHANGED network
  /\ \/ Request(RaceEnvelopes, MaxRequests)
     \/ Sending
RaceSpec == RaceInit /\ [][RaceNext]_vars

\* the requests to /receive, /sleep and /reset, one at a time
ResetInit == InitWith({1, ResetT})
ResetNext ==
  /\ UNCHANGED network
  /\ \/ thr[ResetT].pc = "idle" /\ Request(Envelopes, MaxRequests)
     \/ thr[ResetT].pc = "idle" /\ Sending
     \/ thr[ResetT].pc = "idle" /\ thr[1].pc = "idle" /\ sleep
     \/ thr[1].pc = "idle" /\ reset
ResetSpec == ResetInit /\ [][ResetNext]_vars

\* PINGs from a node that is not the bootstrap peer
IdEnvelopes ==
  { m \in EnvelopeSet(Strangers, Strangers, {0}, {}) : m.msg_type = PING }

\* a request thread that answers PINGs, the heartbeat timer, the
\* value-advancement timer and a request to /reset, all at a time; the
\* timers and /reset start MaxFirings times in all
IdInit == InitWith({1, PingT, PrimeT, ResetT})
IdNext ==
  /\ UNCHANGED <<nodes, net>>
  /\ \/ /\ fired < MaxFirings
        /\ fired' = fired + 1
        /\ \/ PingStart
           \/ PrimeStart
           \/ ResetAwake
     \/ /\ UNCHANGED fired
        /\ \/ Receive(1, IdEnvelopes, MaxRequests)
           \/ Check(1)
           \/ Add(1)
           \/ Touch(1)
           \/ Return(1)
           \/ Sending
           \/ PingLoop
           \/ TimerReturn(PingT)
           \/ PrimeSet
           \/ PrimeSender
           \/ Gossip
           \/ GossipLoop
           \/ TimerReturn(PrimeT)
           \/ ResetSeen
           \/ ResetLoad
           \/ ResetState
           \/ ResetPeer
           \/ ResetReturn
IdSpec == IdInit /\ [][IdNext]_vars

\* a request thread and the three timers, with /sleep and /wake_up at any
\* time; the timers start MaxQuietFirings times in all
QuietInit == InitWith({1, PingT, EvictT, PrimeT})
QuietNext ==
  /\ UNCHANGED <<nodes, net>>
  /\ \/ /\ fired < MaxQuietFirings
        /\ fired' = fired + 1
        /\ \/ PingStart
           \/ EvictStart
           \/ PrimeStart
     \/ /\ UNCHANGED fired
        /\ \/ Request(EvictEnvelopes, 1)
           \/ Sending
           \/ PingLoop
           \/ EvictScan
           \/ EvictPop
           \/ PrimeSet
           \/ PrimeSender
           \/ Gossip
           \/ GossipLoop
           \/ \E t \in Timers : TimerReturn(t)
           \/ sleep
           \/ wake_up
QuietSpec == QuietInit /\ [][QuietNext]_vars

\* what receive() parses without an error but is not a message of the
\* protocol: a msg_type outside MESSAGE_TYPES, or a PRIME with data null
Malformed(m) ==
  \/ m.msg_type \notin MESSAGE_TYPES
  \/ m.msg_type = PRIME /\ m.data = None
\* envelopes from another node forwarded by a node that is not the
\* bootstrap peer, the malformed ones among them
BadEnvelopes ==
  { m \in [msg_type : MESSAGE_TYPES \cup {"BLOCK"}, msg_id : 1..MaxEnvId,
           msg_forwarder : Strangers, msg_originator : OtherPorts,
           ttl : 0..1, data : {None, MERSENNE[1]}] :
      m.msg_type \in {PING, PONG} => m.data = None /\ m.ttl = 0 }

\* one request at a time, malformed envelopes among them
BadInit == InitWith({1})
BadNext ==
  /\ UNCHANGED network
  /\ \/ Request(BadEnvelopes, MaxRequests)
     \/ Sending
BadSpec == BadInit /\ [][BadNext]_vars

(* ------------------------------------------------------------------ *)
(* The network: every port runs the program, and what a node posts is  *)
(* handled by the node it is posted to.  A call of respond and a timer  *)
(* round are one step each here; timestamps are left out, so a node's   *)
(* peers are the keys of STATE["peers"].  hops counts the relays behind *)
(* an envelope and root is the msg_id it was originated with; handled   *)
(* holds the (root, originator) of the PRIMEs a node has acted on.      *)
(* ------------------------------------------------------------------ *)
\* sys.argv[2] of each node (line 269): the ports started in a ring
BootstrapOf(n) == (n % Cardinality(Ports)) + 1

\* lines 32-53 and 269 at node n
InitialNode(n) ==
  [AWAKE |-> TRUE, RECEIVED_MESSAGES |-> {}, peers |-> {BootstrapOf(n)},
   biggest_prime |-> 2, biggest_prime_sender |-> n, msg_id |-> 0,
   handled |-> {}]

NetInit ==
  /\ AWAKE = TRUE
  /\ RECEIVED_MESSAGES = {}
  /\ State = InitialSTATE(0, 0)
  /\ now = 0
  /\ thr = <<>>
  /\ delivered = 0
  /\ nodes = [n \in Ports |-> InitialNode(n)]
  /\ net = {}
  /\ fired = 0

\* the orders in which a loop can walk the peers S
Orders(S) ==
  { f \in [1..Cardinality(S) -> S] :
      \A i, j \in 1..Cardinality(S) : f[i] = f[j] => i = j }

\* send_message_to at node n for the calls cs, one after the other: what is
\* posted (nothing while asleep), with msg_id counting up from STATE["msg_id"]
Posts(n, cs, hops, root) ==
  IF nodes[n].AWAKE
    THEN { [to |-> cs[i].peer,
            msg |-> EnvelopeOf(n, cs[i], nodes[n].msg_id + i - 1),
            hops |-> hops,
            root |-> IF hops = 0 THEN nodes[n].msg_id + i - 1 ELSE root]
           : i \in DOMAIN cs }
    ELSE {}

\* node n ends a step in state s after the calls cs; x: the envelope handled
Step(n, s, cs, hops, x) ==
  /\ nodes' = [nodes EXCEPT ![n] =
       [s EXCEPT !.msg_id = IF nodes[n].AWAKE THEN @ + Len(cs) ELSE @]]
  /\ net' = (net \ x) \cup Posts(n, cs, hops,
                                   IF x = {} THEN 0
                                   ELSE (CHOOSE y \in x : TRUE).root)

\* line 61 without the test
SelfOriginatedNever(n, m) == FALSE

\* line 61: msg_originator == MY_PORT at node n
SelfOriginated(n, m) == m.msg_originator = n

\* receive and respond (lines 55-91, 105-123) at the node x is posted to
NetReceive(x) ==
  LET n == x.to
      m == x.msg
      s == nodes[n]
      marked == [s EXCEPT !.RECEIVED_MESSAGES = @ \cup {Identity(m)}]
      touched == [marked EXCEPT !.peers = @ \cup {m.msg_forwarder}]
      adopted == IF m.data > s.biggest_prime
                   THEN [touched EXCEPT !.biggest_prime = m.data,
                           !.biggest_prime_sender = m.msg_originator]
                   ELSE touched
      known == [adopted EXCEPT !.peers = @ \cup {m.msg_originator},
                  !.handled = @ \cup {<<x.root, m.msg_originator>>}]
  IN
  /\ x \in net
  /\ IF Identity(m) \in s.RECEIVED_MESSAGES
       THEN Step(n, s, <<>>, 0, {x})
     ELSE IF SelfOriginated(n, m)
       THEN Step(n, marked, <<>>, 0, {x})
     ELSE IF m.msg_type = PING
       THEN Step(n, touched, <<PongCall(m)>>, 0, {x})
     ELSE IF m.msg_type = PONG
       THEN Step(n, touched, <<>>, 0, {x})
     ELSE IF m.ttl = 0
       THEN Step(n, known, <<>>, 0, {x})
     ELSE \E ord \in Orders(known.peers) :
            Step(n, known, [i \in DOMAIN ord |-> RelayCall(m, ord[i])],
                 x.hops + 1, {x})
  /\ UNCHANGED <<node, fired>>

\* a round of send_pings_to_everyone at node n (lines 163-172)
NetPing(n) ==
  /\ fired < MaxRounds
  /\ fired' = fired + 1
  /\ \E ord \in Orders(nodes[n].peers) :
       Step(n, nodes[n],
            IF nodes[n].AWAKE
              THEN [i \in DOMAIN ord |-> PingCall(ord[i])] ELSE <<>>,
            0, {})
  /\ UNCHANGED node

\* a round of generate_next_mersenne_prime at node n (lines 174-184, 209-217)
NetAdvance(n) ==
  LET np == find_next_mersenne_prime(nodes[n].biggest_prime)
      s == [nodes[n] EXCEPT !.biggest_prime = np,
                            !.biggest_prime_sender = n]
  IN
  /\ fired < MaxRounds
  /\ np \in Values
  /\ fired' = fired + 1
  /\ IF nodes[n].AWAKE
       THEN \E S \in SUBSET s.peers :
              /\ Cardinality(S) = Min(INFECTION_FACTOR, Cardinality(s.peers))
              /\ \E ord \in Orders(S) :
                   Step(n, s, [i \in DOMAIN ord |-> GossipCall(ord[i], np)],
                        0, {})
       ELSE Step(n, nodes[n], <<>>, 0, {})
  /\ UNCHANGED node

\* a sweep of evict_peers at node n (lines 198-207) that finds the peers S
\* stale
NetEvict(n) ==
  /\ fired < MaxRounds
  /\ fired' = fired + 1
  /\ nodes[n].AWAKE
  /\ \E S \in SUBSET nodes[n].peers :
       /\ S # {}
       /\ Step(n, [nodes[n] EXCEPT !.peers = @ \ S], <<>>, 0, {})
  /\ UNCHANGED node

\* reset at node n (lines 245-260)
NetReset(n) ==
  /\ fired < MaxRounds
  /\ fired' = fired + 1
  /\ nodes' = [nodes EXCEPT ![n] =
       [InitialNode(n) EXCEPT !.msg_id = nodes[n].msg_id + 1,
                              !.handled = nodes[n].handled]]
  /\ UNCHANGED <<node, net>>

NetNext ==
  \/ \E x \in net : NetReceive(x)
  \/ \E n \in Ports : NetPing(n)
  \/ \E n \in Ports : NetAdvance(n)

\* the timers fire MaxRounds times in all
NetSpec == NetInit /\ [][NetNext]_vars

\* the same with eviction sweeps and resets among the MaxRounds rounds
PeerNext ==
  \/ NetNext
  \/ \E n \in Ports : NetEvict(n)
  \/ \E n \in Ports : NetReset(n)
PeerSpec == NetInit /\ [][PeerNext]_vars

\* every request posted is handled: the post blocks until receive returns
NetFairSpec == NetSpec /\ WF_vars(\E x \in net : NetReceive(x))

(* ------------------------------------------------------------------ *)
(* Properties                                                          *)
(* ------------------------------------------------------------------ *)
\* thread t takes the step
Moves(t) == thr'[t] # thr[t]
\* handler h found its envelope's identity new (line 59) and the envelope
\* another node's (line 61), and has run line 63
Acted(h) ==
  /\ thr[h].pc \notin {"idle", "check", "add", "touch"}
  /\ ~thr[h].dup
  /\ thr[h].env.msg_originator # MY_PORT

\* C1: a delivery of an envelope whose identity (msg_id, originator) the node
\* has already marked is a no-op: the handler returns at once, and none of
\* its steps changes the seen set, the peer table, best value, its source,
\* the msg_id counter, or sends anything.
C1_DuplicateIsNoOp ==
  [][\A h \in Running :
       /\ (thr[h].pc = "check" /\ Moves(h)
             /\ Identity(thr[h].env) \in RECEIVED_MESSAGES)
            => /\ thr'[h].pc = "done"
               /\ thr'[h].dup
               /\ thr'[h].out = <<>>
               /\ UNCHANGED <<RECEIVED_MESSAGES, State>>
       /\ (thr[h].dup /\ Moves(h))
            => /\ thr'[h].pc = "idle"
               /\ UNCHANGED <<RECEIVED_MESSAGES, State>>]_vars

\* C1 witness: a PING that was answered before is delivered again and
\* discarded; the node is awake.
C1_Witness ==
  \E h \in Running :
    /\ thr[h].pc = "done" /\ thr[h].dup /\ thr[h].out = <<>>
    /\ thr[h].env.msg_type = PING
    /\ thr[h].env.msg_originator # MY_PORT
    /\ State.msg_id > 0
    /\ AWAKE

\* C2: no step lowers the best value (no reset happens here), however the
\* handling of inbound PRIMEs and the value-advancement timer interleave.
C2_BestValueNeverDecreases ==
  [][State'.biggest_prime >= State.biggest_prime]_vars

\* a PRIME in flight has a ttl that is not negative, and its ttl and the
\* relays behind it add up to the ttl of an originated PRIME
TTLBound ==
  \A x \in net :
    x.msg.msg_type = PRIME =>
      /\ x.msg.ttl >= 0
      /\ x.hops <= GOSSIP_TTL
      /\ x.hops + x.msg.ttl = GOSSIP_TTL
\* what the handling of a PRIME posts has a smaller ttl than the PRIME
\* handled, and the handling of a PRIME of ttl 0 posts nothing
RelayLowersTtl ==
  \A x \in net \ net' :
    x.msg.msg_type = PRIME =>
      /\ \A y \in net' \ net :
           y.msg.msg_type = PRIME /\ y.msg.ttl < x.msg.ttl
      /\ x.msg.ttl = 0 => net' \ net = {}
Quiescent == net = {}

\* C3: a PRIME is originated with ttl 2 and is never more than 2 relays
\* from its origination: each relayed copy has a smaller ttl than the copy
\* that caused it and a copy of ttl 0 causes none; in the ring of nodes,
\* once the timers fire no more, the network becomes and stays quiescent.
C3_TTLBoundAndTermination ==
  /\ []TTLBound
  /\ [][RelayLowersTtl]_vars
  /\ <>[]Quiescent

\* C3 witness: a copy two relays from its origination, with ttl 0, is in
\* flight to a node that has not seen it and did not originate it.
C3_Witness ==
  \E x \in net :
    /\ x.msg.msg_type = PRIME
    /\ x.hops = GOSSIP_TTL /\ x.msg.ttl = 0
    /\ x.msg.msg_originator # x.to
    /\ Identity(x.msg) \notin nodes[x.to].RECEIVED_MESSAGES
    /\ nodes[x.to].peers # {}

\* C4: a peer that a step of the eviction sweep removes was last heard from
\* more than 10 seconds before the sweep's time, as the peer table stands
\* when it is removed: a peer refreshed within the window stays.
C4_SweepRemovesOnlyStale ==
  [][(thr[EvictT].pc = "epop" /\ Moves(EvictT)) =>
       \A p \in Peers \ DOMAIN State'.peers :
         Stale(thr[EvictT].cur, State.peers[p])]_vars

\* C5: no step of a handler whose envelope names the node itself as
\* originator changes best value, its source, the peer table or the msg_id
\* counter, or sends a message: the handler only marks the identity.
C5_SelfOriginatedIgnored ==
  [][\A h \in Running :
       (thr[h].env.msg_originator = MY_PORT /\ Moves(h))
         => /\ State' = State
            /\ thr'[h].out = <<>>
            /\ thr'[h].pc \in {"add", "done", "idle"}]_vars

\* C5 witness: a new PRIME with the node as originator, a payload above the
\* best value and ttl > 0 has been handled to the end.
C5_Witness ==
  \E h \in Running :
    /\ thr[h].pc = "done" /\ ~thr[h].dup
    /\ thr[h].env.msg_originator = MY_PORT
    /\ thr[h].env.msg_type = PRIME
    /\ thr[h].env.ttl > 0
    /\ thr[h].env.data > State.biggest_prime
    /\ AWAKE

\* C6: while the node is asleep, the handling of an envelope that came in
\* while it was asleep changes neither the seen set nor the peer table, best
\* value or its source.
C6_AsleepInboundHasNoEffect ==
  [][~AWAKE =>
       /\ RECEIVED_MESSAGES' = RECEIVED_MESSAGES
       /\ State'.peers = State.peers
       /\ State'.biggest_prime = State.biggest_prime
       /\ State'.biggest_prime_sender = State.biggest_prime_sender]_vars

\* C7: every message a handler relays for a received PRIME carries the
\* received data, originator and msg_id, the received ttl minus one, and the
\* node itself as forwarder.
C7_RelayKeepsEnvelope ==
  \A h \in Running :
    LET m == thr[h].env IN
    m.msg_type = PRIME =>
      \A i \in DOMAIN thr[h].out :
        thr[h].out[i].msg =
          [msg_type |-> PRIME, ttl |-> m.ttl - 1, data |-> m.data,
           msg_forwarder |-> MY_PORT, msg_id |-> m.msg_id,
           msg_originator |-> m.msg_originator]

\* C8: a handler of a new PRIME from another node adopts the payload d
\* exactly when line 75 finds d above the best value: it then writes d as
\* best value and the originator as its source; otherwise none of its steps
\* writes either.
C8_AdoptionRule ==
  [][\A h \in Running :
       LET m == thr[h].env IN
       Moves(h) =>
         /\ thr[h].pc = "cmp" /\ m.data # None =>
              /\ thr'[h].pc = (IF m.data > State.biggest_prime
                                THEN "setp" ELSE "orig")
         /\ thr[h].pc = "setp" =>
              /\ State'.biggest_prime = m.data
              /\ State'.biggest_prime_sender = State.biggest_prime_sender
              /\ thr'[h].pc = "sets"
         /\ thr[h].pc = "sets" =>
              /\ State'.biggest_prime_sender = m.msg_originator
              /\ State'.biggest_prime = State.biggest_prime
         /\ thr[h].pc \notin {"setp", "sets"} =>
              /\ State'.biggest_prime = State.biggest_prime
              /\ State'.biggest_prime_sender = State.biggest_prime_sender]_vars

\* C8 witness: a PRIME whose forwarder is not its originator has just been
\* adopted: best value is its payload and the source its originator.
C8_Witness ==
  \E h \in Running :
    LET m == thr[h].env IN
    /\ thr[h].pc = "orig"
    /\ m.msg_originator # m.msg_forwarder
    /\ State.biggest_prime = m.data
    /\ State.biggest_prime_sender = m.msg_originator
    /\ m.data > 2

\* the HeartbeatAck for PING m, sent with msg_id id
Pong(m, id) ==
  [to |-> m.msg_originator,
   msg |-> [msg_type |-> PONG, ttl |-> 0, data |-> None,
            msg_forwarder |-> MY_PORT, msg_id |-> id,
            msg_originator |-> MY_PORT]]

\* C9: a handler of a new PING or PONG from another node refreshes the
\* forwarder in the peer table; for a PING it then makes one send, which
\* (the node being awake) posts one PONG with ttl 0 and the node as
\* originator to the PING's originator; no other step of the handler posts
\* anything, and a PONG's handler posts nothing, whatever the ttl.
C9_HeartbeatRoundTrip ==
  [][\A h \in Running :
       LET m == thr[h].env IN
       (m.msg_type \in {PING, PONG} /\ Moves(h)) =>
         /\ thr[h].pc = "add" /\ m.msg_originator # MY_PORT =>
              thr'[h].pc = "touch"
         /\ thr[h].pc = "touch" =>
              /\ m.msg_forwarder \in DOMAIN State'.peers
              /\ State'.peers[m.msg_forwarder] = now
              /\ thr'[h].pc = (IF m.msg_type = PING THEN "send" ELSE "done")
         /\ thr[h].pc = "send" =>
              /\ m.msg_type = PING
              /\ thr[h].out = <<>>
              /\ thr'[h].out = (IF AWAKE THEN <<Pong(m, State.msg_id)>>
                                 ELSE <<>>)
              /\ thr'[h].pc = (IF AWAKE THEN "inc" ELSE "done")
         /\ thr[h].pc = "inc" => thr'[h].pc = "wr"
         /\ thr[h].pc = "wr" => thr'[h].pc = "done"
         /\ thr[h].pc # "send" /\ thr[h].pc # "done" =>
              thr'[h].out = thr[h].out]_vars

\* C9 witness: a PING with ttl > 0, forwarded by a node that is not its
\* originator, has been answered.
C9_Witness ==
  \E h \in Running :
    LET m == thr[h].env IN
    /\ thr[h].pc = "done"
    /\ m.msg_type = PING /\ m.ttl > 0
    /\ m.msg_originator \notin {MY_PORT, m.msg_forwarder}
    /\ Len(thr[h].out) = 1
    /\ thr[h].out[1].to = m.msg_originator
    /\ m.msg_forwarder \in Peers

\* C10: of the handlers of envelopes with one identity, at most one finds
\* the identity new and applies the message's side effects.
C10_AtomicCheckAndMark ==
  \A h, g \in Running :
    (h # g /\ Acted(h) /\ Acted(g))
      => Identity(thr[h].env) # Identity(thr[g].env)

\* C11 as claimed: when reset() has run to its end, the seen set and the
\* peer table are empty, best value is 2 with the node as source, and the
\* msg_id counter is above the value reset() found.
C11_ResetClearsPeerTable ==
  thr[ResetT].pc = "done" =>
    /\ RECEIVED_MESSAGES = {}
    /\ Peers = {}
    /\ State.biggest_prime = 2
    /\ State.biggest_prime_sender = MY_PORT
    /\ State.msg_id > thr[ResetT].mid

\* C11: when reset() has run to its end, the seen set is empty, the peer
\* table holds the bootstrap peer alone, heard from at the time of the
\* reset, best value is 2 with the node as source, the node is awake, and
\* the msg_id counter is one above the value reset() found.
C11_ResetPostcondition ==
  thr[ResetT].pc = "done" =>
    /\ RECEIVED_MESSAGES = {}
    /\ Peers = BOOTSTRAP
    /\ \A p \in Peers : State.peers[p] = now
    /\ State.biggest_prime = 2
    /\ State.biggest_prime_sender = MY_PORT
    /\ State.msg_id = thr[ResetT].mid + 1
    /\ State.msg_id > 0
    /\ AWAKE

\* C11 witness: reset() has run to its end on a node that had marked an
\* identity, learnt a peer that is not the bootstrap peer, adopted a value
\* and sent a message.
C11_Witness ==
  /\ thr[ResetT].pc = "done"
  /\ thr[ResetT].mid > 0
  /\ delivered > 0
  /\ Peers # {}

\* the messages the threads have posted in the calls they are in
Posted ==
  UNION { { <<t, i>> : i \in DOMAIN thr[t].out } : t \in DOMAIN thr }

\* C12: the msg_id counter never decreases, and no two messages the node
\* has originated (PINGs, PONGs, originated PRIMEs, to any peers) carry the
\* same msg_id, however the heartbeat timer, the value-advancement timer,
\* the handlers that answer a PING and reset() interleave.
C12_NoMsgIdReuse ==
  /\ [](\A a, b \in Posted :
          LET x == thr[a[1]].out[a[2]].msg
              y == thr[b[1]].out[b[2]].msg
          IN (a # b /\ x.msg_originator = MY_PORT
                /\ y.msg_originator = MY_PORT) => x.msg_id # y.msg_id)
  /\ [][State'.msg_id >= State.msg_id]_vars

\* C13: two envelopes in flight with the same (msg_id, originator) are hops
\* of one originated message, with the same type and data; and an envelope
\* that comes straight from its originator is not discarded as a duplicate
\* by the node it is posted to.
C13_IdentityIsUnique ==
  /\ [](\A x, y \in net :
          Identity(x.msg) = Identity(y.msg) =>
            /\ x.msg.msg_type = y.msg.msg_type
            /\ x.msg.data = y.msg.data)
  /\ [][\A x \in net \ net' :
          (x.hops = 0 /\ x.msg.msg_forwarder = x.msg.msg_originator) =>
            Identity(x.msg) \notin nodes[x.to].RECEIVED_MESSAGES]_vars

C15_RelayNotGatedOnAdoption ==
  [][\A h \in Running :
       LET m == thr[h].env
           t == thr[h]
       IN
       (m.msg_type = PRIME /\ m.data # None /\ Moves(h)) =>
         /\ (t.pc = "cmp" /\ m.data <= State.biggest_prime) =>
              thr'[h].pc = "orig" /\ State' = State
         /\ (t.pc = "orig" /\ m.ttl > 0) => thr'[h].pc = "keys"
         /\ t.pc = "keys" => thr'[h].pc = "relay"
         /\ t.pc = "relay" =>
              IF Peers \subseteq t.vis
                THEN thr'[h].pc = "done"
                ELSE /\ thr'[h].pc = "send"
                     /\ thr'[h].call.peer \in Peers \ t.vis
                     /\ thr'[h].vis = t.vis \cup {thr'[h].call.peer}
                     /\ thr'[h].call.data = m.data
                     /\ thr'[h].call.ttl = m.ttl - 1
                     /\ thr'[h].call.msg_originator = m.msg_originator
                     /\ thr'[h].call.forwarded
         /\ (t.pc = "send" /\ AWAKE) =>
              /\ thr'[h].pc = "inc"
              /\ thr'[h].out =
                   Append(t.out,
                     [to |-> t.call.peer,
                      msg |-> [msg_type |-> PRIME, ttl |-> m.ttl - 1,
                               data |-> m.data, msg_forwarder |-> MY_PORT,
                               msg_id |-> State.msg_id,
                               msg_originator |-> m.msg_originator]])
         /\ t.pc = "inc" => thr'[h].pc = "wr"
         /\ t.pc = "wr" => thr'[h].pc = "relay"]_vars

\* C15 witness: the handler of a new PRIME with ttl > 0 and a payload below
\* the best value has posted that payload to every peer of the table.
C15_Witness ==
  \E h \in Running :
    LET m == thr[h].env IN
    /\ thr[h].pc = "done" /\ ~thr[h].dup /\ ~thr[h].exc
    /\ m.msg_type = PRIME /\ m.ttl > 0
    /\ m.data < State.biggest_prime
    /\ Cardinality(Peers) > 1
    /\ {thr[h].out[i].to : i \in DOMAIN thr[h].out} = Peers
    /\ \A i \in DOMAIN thr[h].out : thr[h].out[i].msg.data = m.data

\* envelope x is a PRIME that the node it is posted to will act on: its
\* identity is new there and another node originated it
ActsOn(x) ==
  /\ x.msg.msg_type = PRIME
  /\ Identity(x.msg) \notin nodes[x.to].RECEIVED_MESSAGES
  /\ x.msg.msg_originator # x.to

\* C16: a node acts on (adopts or not, and relays) the copies of one
\* originated PRIME at most once: the PRIME it acts on is not a copy of an
\* origination it has acted on before.
C16_ForwardOnce ==
  [][\A x \in net \ net' :
       ActsOn(x) =>
         <<x.root, x.msg.msg_originator>> \notin nodes[x.to].handled]_vars

\* C17: no timer thread is ever ended by an error raised in its callback:
\* each timer that runs goes on firing.
C17_TimersSurviveErrors ==
  \A t \in Timers \cap DOMAIN thr : thr[t].pc # "dead"

\* C18: no step of the handler of a malformed envelope (unknown msg_type,
\* or PRIME with data null) changes the seen set, the peer table, best
\* value or its source, or posts a message; the handler returns and the
\* thread takes the next request.
C18_MalformedHasNoEffect ==
  [][\A h \in Running :
       (Malformed(thr[h].env) /\ Moves(h)) =>
         /\ RECEIVED_MESSAGES' = RECEIVED_MESSAGES
         /\ State' = State
         /\ thr'[h].out = <<>>
         /\ thr'[h].pc # "dead"]_vars

\* thread t has written best value and not yet its source
Halfway(t) == thr[t].pc \in {"sets", "psender"}

\* C19: the write of the source that ends an update, when no other thread
\* is halfway through one, leaves best value and source paired: after a
\* handler's, best value is the payload of its PRIME and the source its
\* originator; after the value-advancement timer's, best value is the value
\* the timer produced and the source the node itself.
C19_ValueAndSourceTogether ==
  [][\A t \in DOMAIN thr :
       (Halfway(t) /\ Moves(t)
          /\ \A u \in DOMAIN thr \ {t} : ~Halfway(u)) =>
         IF t \in Handlers
           THEN /\ State'.biggest_prime = thr[t].env.data
                /\ State'.biggest_prime_sender = thr[t].env.msg_originator
           ELSE /\ State'.biggest_prime = thr[t].np
                /\ State'.biggest_prime_sender = MY_PORT]_vars

\* C20: no node has its own port in its peer table, and no envelope is
\* posted to the node that sends it.
C20_NoSelfPeer ==
  /\ \A n \in Ports : n \notin nodes[n].peers
  /\ \A x \in net : x.to # x.msg.msg_forwarder

\* C20 witness: a node has learnt a second peer and has been handed back,
\* and has marked, a copy of a PRIME it originated.
C20_Witness ==
  \E n \in Ports :
    /\ Cardinality(nodes[n].peers) > 1
    /\ nodes[n].biggest_prime_sender = n
    /\ nodes[n].biggest_prime > 2
    /\ \E i \in nodes[n].RECEIVED_MESSAGES : i[2] = n

====
